---- MODULE Spec2Model ----
(***************************************************************************)
(* Model of src/src/App.tsx: the penalty-shot game component.              *)
(*                                                                         *)
(* The state is the component's React state (the useState cells), the      *)
(* powerIntervalRef ref, and the browser's timer table: the live           *)
(* setInterval handles and the pending setTimeout callbacks.  Every event  *)
(* handler, timer callback and effect is one atomic action; the component  *)
(* re-renders between two events, so a handler reads the state left by the *)
(* previous one.  Inside one handler a state cell keeps the value of the   *)
(* render the handler was created in (animateBall reads the goalkeeper     *)
(* position of before setGoalkeeperPosition).  An effect of a render runs  *)
(* before the component handles anything else, so while the auto-shoot     *)
(* effect is due no other handler or callback is taken.  Timeouts of equal *)
(* delay fire in the order in which they were armed.                       *)
(***************************************************************************)
EXTENDS Integers, FiniteSets, Sequences, TLC

(* ---------------- program constants ---------------- *)
perfectZoneStart == 70
perfectZoneEnd == 85
MaxPower == 100
ChargeSpeed == 2
DefaultBallX == 50
DefaultBallY == 85

(* ---------------- bounds of the model ---------------- *)
\* rounds that may be counted before the score is reset
MaxAttempts == 3
\* setInterval handles that may be live at once
MaxIntervals == 2
\* setTimeout callbacks that may be pending at once
MaxTimeouts == 2

\* Math.random() outcomes, in tenths: the least, a middle and the greatest
RandomDraws == {0, 5, 9}

VARIABLES
  gameState,          \* useState<GameState>: "waiting" | "charging" | "shooting"
  power,              \* useState(0)
  score,              \* useState(0): the successes
  attempts,           \* useState(0)
  shotResult,         \* useState<ShotResult>: "goal" | "save" | "miss" | "none" (null)
  goalkeeperPosition, \* useState('center')
  ballPosition,       \* useState({x: 50, y: 85})
  showResult,         \* useState(false): the result overlay
  powerIntervalRef,   \* useRef: the handle stored by the last press, 0 = undefined
  intervals,          \* timer table: handles of the live setInterval timers
  timeouts,           \* timer table: pending setTimeout callbacks, by kind and by
                      \* whether the round that armed them has been reset since
  lastEvent,          \* the handler or callback that ran last
  shotPower,          \* argument of a direct call of calculateShotOutcome
  outcome             \* value returned by that call

roundVars == <<gameState, power, shotResult, goalkeeperPosition, ballPosition, showResult>>
sessionVars == <<score, attempts>>
appVars == <<gameState, power, score, attempts, shotResult, goalkeeperPosition,
             ballPosition, showResult>>
timerVars == <<powerIntervalRef, intervals, timeouts>>
callVars == <<shotPower, outcome>>
vars == <<gameState, power, score, attempts, shotResult, goalkeeperPosition,
          ballPosition, showResult, powerIntervalRef, intervals, timeouts,
          lastEvent, shotPower, outcome>>

GameStates == {"waiting", "charging", "shooting"}
ShotResults == {"goal", "save", "miss"}
positions == <<"left", "center", "right">>

NoTimeouts == [show |-> 0, reset |-> 0, staleShow |-> 0, staleReset |-> 0]

PendingTimeouts(t) == t.show + t.reset + t.staleShow + t.staleReset

\* every pending callback now belongs to a round that has been reset
MarkStale(t) ==
  [show |-> 0, reset |-> 0,
   staleShow |-> t.staleShow + t.show, staleReset |-> t.staleReset + t.reset]

(* ---------------- pure functions ---------------- *)
\* the zone test with its bounds excluded
calculateShotOutcome_ExclusiveZone(p) ==
  IF p > perfectZoneStart /\ p < perfectZoneEnd THEN "goal"
  ELSE IF p < perfectZoneStart THEN "save"
  ELSE "miss"

calculateShotOutcome(p) ==
  IF p >= perfectZoneStart /\ p <= perfectZoneEnd THEN "goal"
  ELSE IF p < perfectZoneStart THEN "save"
  ELSE "miss"

\* positions[Math.floor(Math.random() * positions.length)], r in tenths
animateGoalkeeper(r) == positions[((r * Len(positions)) \div 10) + 1]

\* the jitter without the - 0.5 that centres it
Jitter_NotCentred(centre, spread, r) == centre + (r * spread) \div 10

\* gk + (Math.random() - 0.5) * spread, r in tenths
Jitter(centre, spread, r) == centre + ((r - 5) * spread) \div 10

\* the ball target; gk is the goalkeeper position of the current render
animateBall(result, gk, r) ==
  IF result = "goal" THEN [x |-> Jitter(50, 30, r), y |-> 40]
  ELSE IF result = "save"
    THEN LET gkX == IF gk = "left" THEN 25 ELSE IF gk = "right" THEN 75 ELSE 50
         IN [x |-> Jitter(gkX, 10, r), y |-> 45]
  ELSE [x |-> Jitter(50, 40, r), y |-> 10]

\* the success rate with the percentage truncated
successRate_Truncated ==
  IF attempts > 0 THEN (100 * score) \div attempts ELSE 0

\* attempts > 0 ? Math.round((score / attempts) * 100) : 0, where
\* Math.round(v) is the integer part of v + 1/2
successRate ==
  IF attempts > 0 THEN (200 * score + attempts) \div (2 * attempts) ELSE 0

(* ---------------- initial state ---------------- *)
Init ==
  /\ gameState = "waiting"
  /\ power = 0
  /\ score = 0
  /\ attempts = 0
  /\ shotResult = "none"
  /\ goalkeeperPosition = "center"
  /\ ballPosition = [x |-> DefaultBallX, y |-> DefaultBallY]
  /\ showResult = FALSE
  /\ powerIntervalRef = 0
  /\ intervals = {}
  /\ timeouts = NoTimeouts
  /\ lastEvent = "init"
  /\ shotPower = 0
  /\ outcome = "none"

(* ---------------- handlers ---------------- *)
\* the effect's test with the threshold excluded
EffectPending_AboveMax == power > MaxPower /\ gameState = "charging"

\* the condition of the auto-shoot effect: it is due after this render
EffectPending == power >= MaxPower /\ gameState = "charging"

\* setInterval returns a handle that no live timer has
NewInterval == CHOOSE i \in 1..(MaxIntervals + 1) : i \notin intervals

\* handleTouchStart without its phase guard
handleTouchStart_NoGuard ==
  /\ ~EffectPending
  /\ lastEvent' = "press"
  /\ UNCHANGED <<sessionVars, goalkeeperPosition, ballPosition, timeouts, callVars>>
  /\ attempts < MaxAttempts
  /\ Cardinality(intervals) < MaxIntervals
  /\ PendingTimeouts(timeouts) < MaxTimeouts
  /\ gameState' = "charging"
  /\ power' = 0
  /\ shotResult' = "none"
  /\ showResult' = FALSE
  /\ powerIntervalRef' = NewInterval
  /\ intervals' = intervals \cup {NewInterval}

\* 'press start': mousedown / touchstart on the game area
handleTouchStart ==
  /\ ~EffectPending
  /\ lastEvent' = "press"
  /\ UNCHANGED <<sessionVars, goalkeeperPosition, ballPosition, timeouts, callVars>>
  /\ IF gameState # "waiting"
       THEN UNCHANGED <<gameState, power, shotResult, showResult, powerIntervalRef, intervals>>
       ELSE /\ attempts < MaxAttempts
            /\ Cardinality(intervals) < MaxIntervals
            /\ PendingTimeouts(timeouts) < MaxTimeouts
            /\ gameState' = "charging"
            /\ power' = 0
            /\ shotResult' = "none"
            /\ showResult' = FALSE
            /\ powerIntervalRef' = NewInterval
            /\ intervals' = intervals \cup {NewInterval}

\* the interval callback without its clamp at 100
PowerTick_NoClamp ==
  /\ ~EffectPending
  /\ \E i \in intervals : power' = power + ChargeSpeed
  /\ lastEvent' = "tick"
  /\ UNCHANGED <<gameState, sessionVars, shotResult, goalkeeperPosition, ballPosition,
                 showResult, timerVars, callVars>>

\* the setInterval callback of a live charger timer
PowerTick ==
  /\ ~EffectPending
  /\ \E i \in intervals :
       power' = IF power >= MaxPower THEN MaxPower ELSE power + ChargeSpeed
  /\ lastEvent' = "tick"
  /\ UNCHANGED <<gameState, sessionVars, shotResult, goalkeeperPosition, ballPosition,
                 showResult, timerVars, callVars>>

\* handleTouchEnd counting every shot as a success
TouchEndBody_AlwaysScore(rg, rb) ==
  /\ UNCHANGED <<power, showResult, powerIntervalRef, callVars>>
  /\ IF gameState # "charging"
       THEN UNCHANGED <<gameState, sessionVars, shotResult, goalkeeperPosition,
                        ballPosition, intervals, timeouts>>
       ELSE LET result == calculateShotOutcome(power) IN
            /\ intervals' = IF powerIntervalRef # 0
                              THEN intervals \ {powerIntervalRef} ELSE intervals
            /\ gameState' = "shooting"
            /\ shotResult' = result
            /\ goalkeeperPosition' = animateGoalkeeper(rg)
            /\ ballPosition' = animateBall(result, goalkeeperPosition, rb)
            /\ attempts' = attempts + 1
            /\ score' = score + 1
            /\ timeouts' = [timeouts EXCEPT !.show = @ + 1]

\* handleTouchEnd without its phase guard
TouchEndBody_NoGuard(rg, rb) ==
  LET result == calculateShotOutcome(power) IN
  /\ UNCHANGED <<power, showResult, powerIntervalRef, callVars>>
  /\ intervals' = IF powerIntervalRef # 0
                    THEN intervals \ {powerIntervalRef} ELSE intervals
  /\ gameState' = "shooting"
  /\ shotResult' = result
  /\ goalkeeperPosition' = animateGoalkeeper(rg)
  /\ ballPosition' = animateBall(result, goalkeeperPosition, rb)
  /\ attempts' = attempts + 1
  /\ score' = IF result = "goal" THEN score + 1 ELSE score
  /\ timeouts' = [timeouts EXCEPT !.show = @ + 1]

\* handleTouchEnd arming the reset beside the overlay timeout, not inside it
TouchEndBody_FlatTimeouts(rg, rb) ==
  /\ UNCHANGED <<power, showResult, powerIntervalRef, callVars>>
  /\ IF gameState # "charging"
       THEN UNCHANGED <<gameState, sessionVars, shotResult, goalkeeperPosition,
                        ballPosition, intervals, timeouts>>
       ELSE LET result == calculateShotOutcome(power) IN
            /\ intervals' = IF powerIntervalRef # 0
                              THEN intervals \ {powerIntervalRef} ELSE intervals
            /\ gameState' = "shooting"
            /\ shotResult' = result
            /\ goalkeeperPosition' = animateGoalkeeper(rg)
            /\ ballPosition' = animateBall(result, goalkeeperPosition, rb)
            /\ attempts' = attempts + 1
            /\ score' = IF result = "goal" THEN score + 1 ELSE score
            /\ timeouts' = [timeouts EXCEPT !.show = @ + 1, !.reset = @ + 1]

\* the body of handleTouchEnd, with the two Math.random() draws it makes
TouchEndBody(rg, rb) ==
  /\ UNCHANGED <<power, showResult, powerIntervalRef, callVars>>
  /\ IF gameState # "charging"
       THEN UNCHANGED <<gameState, sessionVars, shotResult, goalkeeperPosition,
                        ballPosition, intervals, timeouts>>
       ELSE LET result == calculateShotOutcome(power) IN
            /\ intervals' = IF powerIntervalRef # 0
                              THEN intervals \ {powerIntervalRef} ELSE intervals
            /\ gameState' = "shooting"
            /\ shotResult' = result
            /\ goalkeeperPosition' = animateGoalkeeper(rg)
            /\ ballPosition' = animateBall(result, goalkeeperPosition, rb)
            /\ attempts' = attempts + 1
            /\ score' = IF result = "goal" THEN score + 1 ELSE score
            /\ timeouts' = [timeouts EXCEPT !.show = @ + 1]

\* 'press end': mouseup / touchend on the document
handleTouchEnd ==
  /\ ~EffectPending
  /\ lastEvent' = "release"
  /\ \E rg \in RandomDraws, rb \in RandomDraws : TouchEndBody(rg, rb)

\* the auto-shoot effect, run after a render with power >= 100 while charging
AutoShoot ==
  /\ EffectPending
  /\ lastEvent' = "autoShoot"
  /\ \E rg \in RandomDraws, rb \in RandomDraws : TouchEndBody(rg, rb)

\* resetGame without setPower(0)
resetGame_KeepPower ==
  /\ gameState' = "waiting"
  /\ power' = power
  /\ shotResult' = "none"
  /\ showResult' = FALSE
  /\ ballPosition' = [x |-> DefaultBallX, y |-> DefaultBallY]
  /\ goalkeeperPosition' = "center"

\* resetGame without setShotResult(null)
resetGame_KeepResult ==
  /\ gameState' = "waiting"
  /\ power' = 0
  /\ shotResult' = shotResult
  /\ showResult' = FALSE
  /\ ballPosition' = [x |-> DefaultBallX, y |-> DefaultBallY]
  /\ goalkeeperPosition' = "center"

\* resetGame without setBallPosition
resetGame_KeepBall ==
  /\ gameState' = "waiting"
  /\ power' = 0
  /\ shotResult' = "none"
  /\ showResult' = FALSE
  /\ ballPosition' = ballPosition
  /\ goalkeeperPosition' = "center"

\* the six setters of resetGame
resetGame ==
  /\ gameState' = "waiting"
  /\ power' = 0
  /\ shotResult' = "none"
  /\ showResult' = FALSE
  /\ ballPosition' = [x |-> DefaultBallX, y |-> DefaultBallY]
  /\ goalkeeperPosition' = "center"

\* the overlay callback without the nested setTimeout
ShowResultTimeout_NoReset ==
  /\ ~EffectPending
  /\ \/ /\ timeouts.show > 0 /\ timeouts.staleShow = 0
        /\ timeouts' = [timeouts EXCEPT !.show = @ - 1]
     \/ /\ timeouts.staleShow > 0
        /\ timeouts' = [timeouts EXCEPT !.staleShow = @ - 1]
  /\ showResult' = TRUE
  /\ lastEvent' = "showTimeout"
  /\ UNCHANGED <<gameState, power, sessionVars, shotResult, goalkeeperPosition,
                 ballPosition, powerIntervalRef, intervals, callVars>>

\* the outer setTimeout callback (1000ms): show the overlay, arm the reset
ShowResultTimeout ==
  /\ ~EffectPending
  /\ \/ /\ timeouts.show > 0 /\ timeouts.staleShow = 0
        /\ timeouts' = [timeouts EXCEPT !.show = @ - 1, !.reset = @ + 1]
     \/ /\ timeouts.staleShow > 0
        /\ timeouts' = [timeouts EXCEPT !.staleShow = @ - 1, !.staleReset = @ + 1]
  /\ showResult' = TRUE
  /\ lastEvent' = "showTimeout"
  /\ UNCHANGED <<gameState, power, sessionVars, shotResult, goalkeeperPosition,
                 ballPosition, powerIntervalRef, intervals, callVars>>

\* the inner setTimeout callback (2000ms): resetGame()
ResetGameTimeout ==
  /\ ~EffectPending
  /\ \/ /\ timeouts.reset > 0 /\ timeouts.staleReset = 0
        /\ timeouts' = MarkStale([timeouts EXCEPT !.reset = @ - 1])
     \/ /\ timeouts.staleReset > 0
        /\ timeouts' = MarkStale([timeouts EXCEPT !.staleReset = @ - 1])
  /\ resetGame
  /\ lastEvent' = "resetTimeout"
  /\ UNCHANGED <<sessionVars, powerIntervalRef, intervals, callVars>>

\* resetScore without setScore(0)
resetScore_KeepScore ==
  /\ ~EffectPending
  /\ score' = score
  /\ attempts' = 0
  /\ resetGame
  /\ timeouts' = MarkStale(timeouts)
  /\ lastEvent' = "resetScore"
  /\ UNCHANGED <<powerIntervalRef, intervals, callVars>>

\* the reset button
resetScore ==
  /\ ~EffectPending
  /\ score' = 0
  /\ attempts' = 0
  /\ resetGame
  /\ timeouts' = MarkStale(timeouts)
  /\ lastEvent' = "resetScore"
  /\ UNCHANGED <<powerIntervalRef, intervals, callVars>>

Next ==
  \/ handleTouchStart
  \/ PowerTick
  \/ handleTouchEnd
  \/ AutoShoot
  \/ ShowResultTimeout
  \/ ResetGameTimeout
  \/ resetScore

Spec == Init /\ [][Next]_vars

\* armed timers eventually fire and a due effect eventually runs
FairSpec ==
  /\ Spec
  /\ WF_vars(PowerTick)
  /\ WF_vars(AutoShoot)
  /\ WF_vars(ShowResultTimeout)
  /\ WF_vars(ResetGameTimeout)

(* ---------------- direct calls of the outcome resolver ---------------- *)
InitCall ==
  /\ Init!1 /\ Init!2 /\ Init!3 /\ Init!4 /\ Init!5 /\ Init!6 /\ Init!7 /\ Init!8
  /\ Init!9 /\ Init!10 /\ Init!11 /\ Init!12
  /\ shotPower \in 0..MaxPower
  /\ outcome = "none"

CallResolver ==
  /\ outcome' = calculateShotOutcome(shotPower)
  /\ lastEvent' = "call"
  /\ UNCHANGED <<appVars, timerVars, shotPower>>

NextCall == CallResolver

SpecCall == InitCall /\ [][NextCall]_vars

(* ---------------- properties ---------------- *)

\* C1: the outcome resolver returns goal exactly for 70 <= p <= 85, save
\* exactly for p < 70 and miss exactly for p > 85, for every p in 0..100.
C1_ResolverZones ==
  outcome # "none" =>
    /\ (outcome = "goal") <=> (70 <= shotPower /\ shotPower <= 85)
    /\ (outcome = "save") <=> (shotPower < 70)
    /\ (outcome = "miss") <=> (shotPower > 85)
    /\ (shotPower = 69 => outcome = "save")
    /\ (shotPower = 70 => outcome = "goal")
    /\ (shotPower = 85 => outcome = "goal")
    /\ (shotPower = 86 => outcome = "miss")

C1_Witness == shotPower = 85 /\ outcome = "goal"

\* C2: in every reachable state 0 <= score <= attempts.
C2_ScoreAtMostAttempts == 0 <= score /\ score <= attempts /\ 0 <= attempts

C2_Witness == attempts = 2 /\ score = 1

\* a release (explicit or by the effect) taken while charging
ReleaseStep == lastEvent' \in {"release", "autoShoot"} /\ gameState = "charging"

C4_AutoRelease ==
  /\ [](gameState = "charging" /\ power >= 100 => ENABLED AutoShoot)
  /\ [][ (gameState = "charging" /\ power >= 100) =>
            /\ lastEvent' = "autoShoot"
            /\ gameState' = "shooting"
            /\ shotResult' = "miss"
            /\ power' = 100
            /\ attempts' = attempts + 1
            /\ score' = score
        ]_vars
  /\ [][ lastEvent' = "autoShoot" => (gameState = "charging" /\ power = 100) ]_vars

C4_Witness ==
  /\ lastEvent = "autoShoot" /\ gameState = "shooting" /\ power = 100
  /\ shotResult = "miss" /\ attempts = 1 /\ score = 0

\* C5: from the step in which the phase becomes shooting and for as long
\* as it stays shooting, power keeps the value the result was resolved from.
C5_PowerFrozenAfterRelease ==
  [][ gameState' = "shooting" => power' = power ]_vars

\* a timeout callback of a round that resetScore has cleared fires
StaleTimeoutStep ==
  \/ lastEvent' = "showTimeout" /\ timeouts.staleShow > 0
  \/ lastEvent' = "resetTimeout" /\ timeouts.staleReset > 0

\* C6: the delayed callbacks of a round that resetScore interrupted change
\* no state when they fire.
C6_StaleCallbacksAreNoOps ==
  [][ StaleTimeoutStep => UNCHANGED appVars ]_vars

\* C7: a charger tick changes power only while the phase is charging, so
\* power is 0 whenever the phase is waiting.
C7_TicksOnlyWhileCharging ==
  [][ (lastEvent' = "tick" /\ gameState # "charging") => power' = power ]_vars

DefaultRound ==
  /\ gameState = "waiting"
  /\ power = 0
  /\ shotResult = "none"
  /\ showResult = FALSE
  /\ ballPosition = [x |-> 50, y |-> 85]
  /\ goalkeeperPosition = "center"

\* C8: the score reset, from any phase, leaves attempts = 0, score = 0 and
\* the default round; a second reset right after it changes nothing.
C8_ResetScoreTotal ==
  [][ /\ (lastEvent' = "resetScore") => (attempts' = 0 /\ score' = 0 /\ DefaultRound')
      /\ (lastEvent = "resetScore" /\ lastEvent' = "resetScore") =>
           UNCHANGED <<appVars, timerVars>>
    ]_vars

\* the reset interrupted a round whose overlay was showing
C8_Witness ==
  /\ lastEvent = "resetScore" /\ timeouts.staleReset > 0
  /\ attempts = 0 /\ score = 0 /\ DefaultRound

\* C9: a press while not waiting and a release while not charging change
\* no state and no timer.
C9_IgnoredInputs ==
  [][ /\ (lastEvent' = "press" /\ gameState # "waiting") =>
           UNCHANGED <<appVars, timerVars>>
      /\ (lastEvent' = "release" /\ gameState # "charging") =>
           UNCHANGED <<appVars, timerVars>>
    ]_vars

\* a press was ignored during shooting
C9_Witness == lastEvent = "press" /\ gameState = "shooting" /\ showResult

\* C10: the result is none exactly when the phase is waiting or charging.
C10_ResultMatchesPhase ==
  /\ gameState \in {"waiting", "charging", "shooting"}
  /\ (shotResult = "none") <=> (gameState \in {"waiting", "charging"})
  /\ (gameState = "shooting") => shotResult \in {"goal", "save", "miss"}

C10_Witness ==
  /\ gameState = "waiting" /\ shotResult = "none" /\ lastEvent = "resetTimeout"
  /\ attempts = 1

\* C11: the result changes only in the step in which the phase leaves
\* charging for shooting (from none to the outcome) and in a step that resets
\* the round to waiting (back to none); no tick, press, release or overlay
\* callback changes it in between.
C11_ResultSetOnce ==
  [][ /\ (gameState = "charging" /\ gameState' = "shooting") =>
           (shotResult = "none" /\ shotResult' \in {"goal", "save", "miss"})
      /\ (shotResult' # shotResult) =>
           \/ (ReleaseStep /\ shotResult = "none" /\ gameState' = "shooting")
           \/ (gameState' = "waiting" /\ shotResult' = "none"
                 /\ lastEvent' \in {"resetTimeout", "resetScore"})
      /\ (lastEvent' \in {"tick", "press", "release", "showTimeout"}
            /\ gameState = "shooting") => shotResult' = shotResult
    ]_vars

\* the overlay callback ran in a round whose result stayed as resolved
C11_Witness ==
  /\ lastEvent = "showTimeout" /\ gameState = "shooting" /\ shotResult = "goal"
  /\ showResult /\ timeouts.reset = 1

\* C12: the delayed reset callback leaves the default round (waiting, power 0,
\* no result, overlay hidden, ball at (50,85), goalkeeper center) and does not
\* change attempts or score; a release arms the chain that leads to it.
C12_DelayedResetToDefault ==
  [][ /\ (lastEvent' = "resetTimeout") =>
           (DefaultRound' /\ attempts' = attempts /\ score' = score)
      /\ ReleaseStep => timeouts'.show = timeouts.show + 1
    ]_vars

C12_Witness ==
  /\ lastEvent = "resetTimeout" /\ DefaultRound /\ attempts = 1 /\ score = 1
  /\ PendingTimeouts(timeouts) = 0

\* x-anchor of a goalkeeper position
GoalkeeperAnchor(gk) == IF gk = "left" THEN 25 ELSE IF gk = "right" THEN 75 ELSE 50

\* C13: when the result is save, the ball target has y = 45 and x within 5 of
\* the anchor of the goalkeeper position chosen at that release.
C13_SaveBallNearKeeper ==
  (gameState = "shooting" /\ shotResult = "save") =>
    /\ ballPosition.y = 45
    /\ ballPosition.x - GoalkeeperAnchor(goalkeeperPosition) <= 5
    /\ GoalkeeperAnchor(goalkeeperPosition) - ballPosition.x <= 5

\* C14: the success rate is 0 when attempts = 0 and otherwise the integer
\* nearest to 100 * score / attempts, so it lies in 0..100; with attempts = 2
\* and score = 1 it is 50.
C14_SuccessRate ==
  /\ attempts = 0 => successRate = 0
  /\ attempts > 0 =>
       /\ successRate \in 0..100
       /\ 2 * (100 * score - successRate * attempts) <= attempts
       /\ 2 * (successRate * attempts - 100 * score) <= attempts
  /\ (attempts = 2 /\ score = 1) => successRate = 50

\* two rounds, a goal then a miss by auto-release, the second still shown
C14_Witness ==
  /\ attempts = 2 /\ score = 1 /\ successRate = 50
  /\ gameState = "shooting" /\ shotResult = "miss" /\ lastEvent = "autoShoot"
  /\ timeouts.staleShow = 0 /\ timeouts.staleReset = 0 /\ intervals = {}

\* C15: the overlay is visible only in the shooting phase of a round with a
\* result.
C15_OverlayOnlyWhileShooting ==
  showResult => (gameState = "shooting" /\ shotResult \in {"goal", "save", "miss"})

\* C16: 0 <= power <= 100 in every state; a tick adds exactly 2 below 100 and
\* leaves power at 100 otherwise.
C16_PowerRange ==
  /\ [](power \in 0..100)
  /\ [][ (lastEvent' = "tick") =>
            power' = IF power < 100 THEN power + 2 ELSE 100 ]_vars
  /\ [][ (power' > power) => (lastEvent' = "tick" /\ power' = power + 2) ]_vars

\* the charger has brought power from 0 to exactly 100
C16_Witness == power = 100 /\ lastEvent = "tick" /\ gameState = "charging"

C18_RoundTerminates ==
  /\ (gameState = "charging") ~> DefaultRound
  /\ (gameState = "charging") ~> (gameState # "charging")
  /\ (gameState = "shooting") ~> DefaultRound

\* a round ended by the auto-release has come back to waiting
C18_Witness ==
  /\ lastEvent = "resetTimeout" /\ DefaultRound /\ attempts = 1 /\ score = 0
  /\ timeouts = NoTimeouts /\ intervals = {}

\* C19: after a release the ball target lies in [0,100]x[0,100] and matches
\* the result (goal: y = 40, 35 <= x <= 65; miss: y = 10, 30 <= x <= 70), and
\* the goalkeeper position is left, center or right.
C19_BallTargetMatchesResult ==
  /\ goalkeeperPosition \in {"left", "center", "right"}
  /\ gameState = "shooting" =>
       /\ ballPosition.x \in 0..100 /\ ballPosition.y \in 0..100
       /\ shotResult = "goal" =>
            (ballPosition.y = 40 /\ 35 <= ballPosition.x /\ ballPosition.x <= 65)
       /\ shotResult = "miss" =>
            (ballPosition.y = 10 /\ 30 <= ballPosition.x /\ ballPosition.x <= 70)

\* a goal whose ball target is at the left edge of the jitter
C19_Witness ==
  /\ gameState = "shooting" /\ shotResult = "goal"
  /\ ballPosition = [x |-> 35, y |-> 40] /\ goalkeeperPosition = "right"

\* C20: at most one charger interval is live, it is the one held in
\* powerIntervalRef, and none is live outside the charging phase.
C20_SingleLiveInterval ==
  /\ Cardinality(intervals) <= 1
  /\ intervals \subseteq {powerIntervalRef}
  /\ gameState # "charging" => intervals = {}

====
